---- MODULE Spec2Model ----
(***************************************************************************)
(* FinancialAnalyzer (src/algorithm.py): merge sort of a price time        *)
(* series, divide-and-conquer maximum subarray over the price deltas, the  *)
(* closest-pair style anomaly scan, and the report that combines them.     *)
(*                                                                         *)
(* Timestamps are whole days (so total_seconds() / 86400 of a difference   *)
(* is the difference itself), prices are integers, and a threshold is the  *)
(* rational <<num, den>> with den > 0.  Python indexes from 0 and TLA+     *)
(* from 1: the model keeps the program's 0-based indices and reads a       *)
(* sequence through At.                                                    *)
(***************************************************************************)
EXTENDS Integers, Sequences, FiniteSets, TLC

VARIABLES data, op, arg, threshold, ret, exc

vars == <<data, op, arg, threshold, ret, exc>>

\* ------------------------------------------------------------------ bounds
MaxLen == 4          \* longest list of data points
MaxDay == 1          \* their timestamps are the days 0..MaxDay
MaxPricesLen == 5    \* longest price list given to find_maximum_subarray
MaxGainPrice == 3    \* prices of those lists are 0..MaxGainPrice

Days == 0..MaxDay

\* The price of an enumerated data point: zero, or one of two that differ.
Prices == {0, 1, 2}

\* ----------------------------------------------------------------- helpers
At(s, i) == s[i + 1]

Abs(x) == IF x < 0 THEN -x ELSE x

Min(a, b) == IF a < b THEN a ELSE b

None == "None"

\* ------------------------------------------------------------- merge_sort
\* merge_halves with the comparison left[i].timestamp < right[j].timestamp
RECURSIVE merge_halves_strict(_, _, _, _, _)
merge_halves_strict(left, right, i, j, merged) ==
    IF i < Len(left) /\ j < Len(right)
    THEN IF At(left, i).timestamp < At(right, j).timestamp
         THEN merge_halves_strict(left, right, i + 1, j, Append(merged, At(left, i)))
         ELSE merge_halves_strict(left, right, i, j + 1, Append(merged, At(right, j)))
    ELSE merged \o SubSeq(left, i + 1, Len(left)) \o SubSeq(right, j + 1, Len(right))

\* merge_halves without merged.extend(left[i:])
RECURSIVE merge_halves_lossy(_, _, _, _, _)
merge_halves_lossy(left, right, i, j, merged) ==
    IF i < Len(left) /\ j < Len(right)
    THEN IF At(left, i).timestamp <= At(right, j).timestamp
         THEN merge_halves_lossy(left, right, i + 1, j, Append(merged, At(left, i)))
         ELSE merge_halves_lossy(left, right, i, j + 1, Append(merged, At(right, j)))
    ELSE merged \o SubSeq(right, j + 1, Len(right))

\* The while loop and the two extends of the merge.
RECURSIVE merge_halves(_, _, _, _, _)
merge_halves(left, right, i, j, merged) ==
    IF i < Len(left) /\ j < Len(right)
    THEN IF At(left, i).timestamp <= At(right, j).timestamp
         THEN merge_halves(left, right, i + 1, j, Append(merged, At(left, i)))
         ELSE merge_halves(left, right, i, j + 1, Append(merged, At(right, j)))
    ELSE merged \o SubSeq(left, i + 1, Len(left)) \o SubSeq(right, j + 1, Len(right))

RECURSIVE merge_sort(_)
merge_sort(arr) ==
    IF Len(arr) <= 1
    THEN arr
    ELSE LET mid == Len(arr) \div 2
             left == merge_sort(SubSeq(arr, 1, mid))
             right == merge_sort(SubSeq(arr, mid + 1, Len(arr)))
         IN merge_halves(left, right, 0, 0, <<>>)

\* ---------------------------------------------------- find_maximum_subarray
\* A float that is either finite or float('-inf').
NegInf == [fin |-> FALSE, val |-> 0]

Fin(x) == [fin |-> TRUE, val |-> x]

\* a + b for floats of which none is +inf
ExtAdd(a, b) == IF a.fin /\ b.fin THEN Fin(a.val + b.val) ELSE NegInf

\* a > b
ExtGt(a, b) == IF ~a.fin THEN FALSE ELSE IF ~b.fin THEN TRUE ELSE a.val > b.val

\* a >= b
ExtGe(a, b) == IF ~b.fin THEN TRUE ELSE IF ~a.fin THEN FALSE ELSE a.val >= b.val

\* for i in range(mid - 1, low - 1, -1): the scan to the left of mid
RECURSIVE scan_left(_, _, _, _, _, _)
scan_left(arr, i, low, sum_temp, left_sum, max_left) ==
    IF i < low
    THEN [sum |-> left_sum, index |-> max_left]
    ELSE LET s == sum_temp + At(arr, i)
         IN IF ExtGt(Fin(s), left_sum)
            THEN scan_left(arr, i - 1, low, s, Fin(s), i)
            ELSE scan_left(arr, i - 1, low, s, left_sum, max_left)

\* for i in range(mid + 1, high + 1): the scan to the right of mid
RECURSIVE scan_right(_, _, _, _, _, _)
scan_right(arr, i, high, sum_temp, right_sum, max_right) ==
    IF i > high
    THEN [sum |-> right_sum, index |-> max_right]
    ELSE LET s == sum_temp + At(arr, i)
         IN IF ExtGt(Fin(s), right_sum)
            THEN scan_right(arr, i + 1, high, s, Fin(s), i)
            ELSE scan_right(arr, i + 1, high, s, right_sum, max_right)

max_crossing_sum(arr, low, mid, high) ==
    LET l == scan_left(arr, mid - 1, low, 0, NegInf, mid)
        r == scan_right(arr, mid + 1, high, 0, NegInf, mid + 1)
    IN [low |-> l.index, high |-> r.index,
        sum |-> ExtAdd(ExtAdd(l.sum, Fin(At(arr, mid))), r.sum)]

\* max_subarray with > in place of >= in the choice between the candidates
RECURSIVE max_subarray_strict(_, _, _)
max_subarray_strict(arr, low, high) ==
    IF high = low
    THEN [low |-> low, high |-> high, sum |-> Fin(At(arr, low))]
    ELSE LET mid == (low + high) \div 2
             left == max_subarray_strict(arr, low, mid)
             right == max_subarray_strict(arr, mid + 1, high)
             cross == max_crossing_sum(arr, low, mid, high)
         IN IF ExtGt(left.sum, right.sum) /\ ExtGt(left.sum, cross.sum)
            THEN left
            ELSE IF ExtGt(right.sum, left.sum) /\ ExtGt(right.sum, cross.sum)
                 THEN right
                 ELSE cross

RECURSIVE max_subarray(_, _, _)
max_subarray(arr, low, high) ==
    IF high = low
    THEN [low |-> low, high |-> high, sum |-> Fin(At(arr, low))]
    ELSE LET mid == (low + high) \div 2
             left == max_subarray(arr, low, mid)
             right == max_subarray(arr, mid + 1, high)
             cross == max_crossing_sum(arr, low, mid, high)
         IN IF ExtGe(left.sum, right.sum) /\ ExtGe(left.sum, cross.sum)
            THEN left
            ELSE IF ExtGe(right.sum, left.sum) /\ ExtGe(right.sum, cross.sum)
                 THEN right
                 ELSE cross

\* price_changes = [prices[i+1] - prices[i] for i in range(len(prices)-1)]
price_changes(prices) ==
    [k \in 1..(Len(prices) - 1) |-> prices[k + 1] - prices[k]]

MaximumSubarrayResult(start_index, end_index, sum_value) ==
    [start_index |-> start_index, end_index |-> end_index, sum_value |-> sum_value]

\* find_maximum_subarray returning end in place of end + 1
find_maximum_subarray_unshifted(prices) ==
    IF Len(prices) = 0
    THEN MaximumSubarrayResult(0, 0, Fin(0))
    ELSE IF Len(price_changes(prices)) = 0
         THEN MaximumSubarrayResult(0, 0, Fin(0))
         ELSE LET m == max_subarray(price_changes(prices), 0, Len(price_changes(prices)) - 1)
              IN MaximumSubarrayResult(m.low, m.high, m.sum)

find_maximum_subarray(prices) ==
    IF Len(prices) = 0
    THEN MaximumSubarrayResult(0, 0, Fin(0))
    ELSE IF Len(price_changes(prices)) = 0
         THEN MaximumSubarrayResult(0, 0, Fin(0))
         ELSE LET m == max_subarray(price_changes(prices), 0, Len(price_changes(prices)) - 1)
              IN MaximumSubarrayResult(m.low, m.high + 1, m.sum)

\* ------------------------------------------------------- find_closest_pairs
\* A point is the tuple <<timestamp, price>>: p[1] is Python's p[0].
\* distance(p1, p2) is the square root of a rational; the model keeps its
\* square as num / den.  Python raises ZeroDivisionError when p1's price is
\* 0: the callers test this before they evaluate distance.
distance_raises(p1, p2) == p1[2] = 0

distance(p1, p2) ==
    LET time_diff == p2[1] - p1[1]
        price_num == Abs(p2[2] - p1[2])
    IN [num |-> time_diff * time_diff * p1[2] * p1[2] + price_num * price_num,
        den |-> p1[2] * p1[2]]

\* dist > threshold, for dist the non-negative root of d
exceeds(d, thr) ==
    IF thr[1] < 0
    THEN TRUE
    ELSE d.num * thr[2] * thr[2] > thr[1] * thr[1] * d.den

\* ref (the point the record is measured against) and origin (the loop that
\* emitted it) are history fields; the program's record has the other four.
AnomalyReport(p1, p2, origin) ==
    [timestamp |-> p2[1], value |-> p2[2], expected_value |-> p1[2],
     deviation_percentage |-> [num |-> Abs(p2[2] - p1[2]) * 100, den |-> p1[2]],
     ref |-> p1, origin |-> origin]

NoAnomalies == [raised |-> FALSE, anomalies |-> <<>>]

\* compare with the test dist >= threshold
compare_at_least(p1, p2, thr, origin, acc) ==
    IF acc.raised
    THEN acc
    ELSE IF distance_raises(p1, p2)
         THEN [acc EXCEPT !.raised = TRUE]
         ELSE IF \/ thr[1] < 0
                 \/ distance(p1, p2).num * thr[2] * thr[2]
                      >= thr[1] * thr[1] * distance(p1, p2).den
              THEN [acc EXCEPT !.anomalies = Append(@, AnomalyReport(p1, p2, origin))]
              ELSE acc

\* The body of both inner loops: dist = distance(..); if dist > threshold: append
compare(p1, p2, thr, origin, acc) ==
    IF acc.raised
    THEN acc
    ELSE IF distance_raises(p1, p2)
         THEN [acc EXCEPT !.raised = TRUE]
         ELSE IF exceeds(distance(p1, p2), thr)
              THEN [acc EXCEPT !.anomalies = Append(@, AnomalyReport(p1, p2, origin))]
              ELSE acc

\* the base-case loops with the inner one as range(i, end)
RECURSIVE brute_force_from_self(_, _, _, _, _, _)
brute_force_from_self(points, i, j, end, thr, acc) ==
    IF i >= end
    THEN acc
    ELSE IF j >= end
         THEN brute_force_from_self(points, i + 1, i + 1, end, thr, acc)
         ELSE brute_force_from_self(points, i, j + 1, end, thr,
                  compare(At(points, i), At(points, j), thr, "base", acc))

base_case_from_self(points, start, end, thr) ==
    brute_force_from_self(points, start, start, end, thr, NoAnomalies)

\* for i in range(start, end): for j in range(i + 1, end)
RECURSIVE brute_force(_, _, _, _, _, _)
brute_force(points, i, j, end, thr, acc) ==
    IF i >= end
    THEN acc
    ELSE IF j >= end
         THEN brute_force(points, i + 1, i + 2, end, thr, acc)
         ELSE brute_force(points, i, j + 1, end, thr,
                  compare(At(points, i), At(points, j), thr, "base", acc))

\* the base case of closest_pair_rec: end - start <= 3
base_case(points, start, end, thr) ==
    brute_force(points, start, start + 1, end, thr, NoAnomalies)

\* for i in range(start, end): if time_diff <= threshold * 86400: strip.append
RECURSIVE build_strip(_, _, _, _, _)
build_strip(points, i, end, mid_point, thr) ==
    IF i >= end
    THEN <<>>
    ELSE IF Abs(At(points, i)[1] - mid_point) * thr[2] <= thr[1]
         THEN <<At(points, i)>> \o build_strip(points, i + 1, end, mid_point, thr)
         ELSE build_strip(points, i + 1, end, mid_point, thr)

\* list.sort / sorted with key x[k-1]: stable
RECURSIVE insert_by(_, _, _)
insert_by(sorted_seq, x, k) ==
    IF sorted_seq = <<>>
    THEN <<x>>
    ELSE IF sorted_seq[Len(sorted_seq)][k] <= x[k]
         THEN Append(sorted_seq, x)
         ELSE Append(insert_by(SubSeq(sorted_seq, 1, Len(sorted_seq) - 1), x, k),
                     sorted_seq[Len(sorted_seq)])

RECURSIVE sort_by(_, _)
sort_by(s, k) ==
    IF s = <<>>
    THEN <<>>
    ELSE insert_by(sort_by(SubSeq(s, 1, Len(s) - 1), k), s[Len(s)], k)

\* for i in range(len(strip)): for j in range(i + 1, min(i + 7, len(strip)))
RECURSIVE scan_strip(_, _, _, _, _)
scan_strip(strip, i, j, thr, acc) ==
    IF i >= Len(strip)
    THEN acc
    ELSE IF j >= Min(i + 7, Len(strip))
         THEN scan_strip(strip, i + 1, i + 2, thr, acc)
         ELSE scan_strip(strip, i, j + 1, thr,
                         compare(At(strip, i), At(strip, j), thr, "strip", acc))

RECURSIVE closest_pair_rec(_, _, _, _)
closest_pair_rec(points, start, end, thr) ==
    IF end - start <= 3
    THEN base_case(points, start, end, thr)
    ELSE LET mid == (start + end) \div 2
             mid_point == At(points, mid)[1]
             left_anomalies == closest_pair_rec(points, start, mid, thr)
         IN IF left_anomalies.raised
            THEN left_anomalies
            ELSE LET right_anomalies == closest_pair_rec(points, mid, end, thr)
                 IN IF right_anomalies.raised
                    THEN right_anomalies
                    ELSE LET strip == sort_by(build_strip(points, start, end, mid_point, thr), 2)
                         IN scan_strip(strip, 0, 1, thr,
                                [raised |-> FALSE,
                                 anomalies |-> left_anomalies.anomalies \o right_anomalies.anomalies])

find_closest_pairs(points, thr) ==
    LET sorted_points == sort_by(points, 1)
    IN closest_pair_rec(sorted_points, 0, Len(sorted_points), thr)

\* ---------------------------------------------------- analyze_financial_data
\* The report, built from self.data after the three algorithms returned.
build_report(sorted_data, max_gain_period, anomalies) ==
    [data_points |-> Len(sorted_data),
     start_date |-> At(sorted_data, 0).timestamp,
     end_date |-> sorted_data[Len(sorted_data)].timestamp,
     max_gain_period |->
        [start_date |-> At(sorted_data, max_gain_period.start_index).timestamp,
         end_date |-> At(sorted_data, max_gain_period.end_index).timestamp,
         total_gain |-> max_gain_period.sum_value],
     anomalies |-> anomalies]

\* [returned, raised exception] of the call; self.data is merge_sort(input)
\* from the first statement on.
analyze_financial_data(input, thr) ==
    LET sorted_data == merge_sort(input)
        prices == [k \in 1..Len(sorted_data) |-> sorted_data[k].price]
        max_gain_period == find_maximum_subarray(prices)
        points == [k \in 1..Len(sorted_data) |->
                      <<sorted_data[k].timestamp, sorted_data[k].price>>]
        found == find_closest_pairs(points, thr)
    IN IF found.raised
       THEN <<None, "ZeroDivisionError">>
       ELSE IF Len(sorted_data) = 0
            THEN <<None, "IndexError">>
            ELSE <<build_report(sorted_data, max_gain_period, found.anomalies), None>>

\* ------------------------------------------------------------------ inputs
\* The list of FinancialDataPoint with the timestamps and prices of f; id
\* stands for the identity of the Python object, the position the point has
\* in the list the caller built.
DataPoints(f) ==
    [i \in DOMAIN f |-> [timestamp |-> f[i][1], price |-> f[i][2], id |-> i - 1]]

\* the <<timestamp, price>> lists of length n
PointLists(n) == [1..n -> Days \X Prices]

\* the price lists of length n
PriceLists(n) == [1..n -> 0..MaxGainPrice]

\* known_prices of test_find_max_subarray
known_prices == <<10, 11, 9, 15, 12>>

\* the 'constant' case of create_edge_case_data: five days at price 100
constant_series ==
    [i \in 1..5 |-> [timestamp |-> i - 1, price |-> 100, id |-> i - 1]]

\* anomaly_threshold: float = 0.1
DefaultThreshold == <<1, 10>>

Thresholds == {DefaultThreshold, <<1, 1>>, <<2, 1>>}

NoThreshold == <<0, 1>>

\* -------------------------------------------------------------------- Init
Init ==
    /\ data = <<>>
    /\ op = "init"
    /\ arg = <<>>
    /\ threshold = NoThreshold
    /\ ret = None
    /\ exc = None

\* ----------------------------------------------------------------- actions
\* Each action is one call on a freshly constructed analyzer.
MergeSort ==
    /\ op = "init"
    /\ \E n \in 0..MaxLen : \E f \in PointLists(n) :
           /\ op' = "merge_sort"
           /\ arg' = DataPoints(f)
           /\ threshold' = NoThreshold
           /\ ret' = merge_sort(DataPoints(f))
           /\ exc' = None
           /\ UNCHANGED data

CallFindMaximumSubarray(prices) ==
    /\ op' = "find_maximum_subarray"
    /\ arg' = prices
    /\ threshold' = NoThreshold
    /\ ret' = find_maximum_subarray(prices)
    /\ exc' = None
    /\ UNCHANGED data

FindMaximumSubarray ==
    /\ op = "init"
    /\ \/ \E n \in 0..MaxPricesLen : \E prices \in PriceLists(n) :
              CallFindMaximumSubarray(prices)
       \/ CallFindMaximumSubarray(known_prices)

FindClosestPairs ==
    /\ op = "init"
    /\ \E n \in 0..MaxLen : \E points \in PointLists(n) : \E thr \in Thresholds :
           LET found == find_closest_pairs(points, thr)
           IN /\ op' = "find_closest_pairs"
              /\ arg' = points
              /\ threshold' = thr
              /\ ret' = IF found.raised THEN None ELSE found.anomalies
              /\ exc' = IF found.raised THEN "ZeroDivisionError" ELSE None
              /\ UNCHANGED data

CallAnalyzeFinancialData(input, thr) ==
    LET outcome == analyze_financial_data(input, thr)
    IN /\ op' = "analyze_financial_data"
       /\ arg' = input
       /\ threshold' = thr
       /\ data' = merge_sort(input)
       /\ ret' = outcome[1]
       /\ exc' = outcome[2]

AnalyzeFinancialData ==
    /\ op = "init"
    /\ \E thr \in Thresholds :
           \/ \E n \in 0..MaxLen : \E f \in PointLists(n) :
                  CallAnalyzeFinancialData(DataPoints(f), thr)
           \/ CallAnalyzeFinancialData(constant_series, thr)

Next == MergeSort \/ FindMaximumSubarray \/ FindClosestPairs \/ AnalyzeFinancialData

Spec == Init /\ [][Next]_vars

SpecSort == Init /\ [][MergeSort]_vars

SpecGain == Init /\ [][FindMaximumSubarray]_vars

SpecPairs == Init /\ [][FindClosestPairs]_vars

SpecReport == Init /\ [][AnalyzeFinancialData]_vars

\* ------------------------------------------------------------------ claims
Indices(s) == 1..Len(s)

RECURSIVE RunSum(_, _, _)
RunSum(d, lo, hi) == IF lo > hi THEN 0 ELSE At(d, lo) + RunSum(d, lo + 1, hi)

Runs(d) ==
    { r \in (0..(Len(d) - 1)) \X (0..(Len(d) - 1)) : r[1] <= r[2] }

MaxRunSum(d) ==
    CHOOSE m \in { RunSum(d, r[1], r[2]) : r \in Runs(d) } :
        \A r \in Runs(d) : RunSum(d, r[1], r[2]) <= m

AllEqual(prices) == \A i \in Indices(prices) : prices[i] = prices[1]

\* C1: for every price list of length n >= 2 the sum_value returned by
\* find_maximum_subarray is the maximum, over all non-empty contiguous runs
\* of the delta array, of the sum of the run.
C1_MaximumRunSum ==
    (op = "find_maximum_subarray" /\ Len(arg) >= 2)
        => ret.sum_value = Fin(MaxRunSum(price_changes(arg)))

\* C2: merge_sort returns a permutation of its input (same length, same
\* elements) whose timestamps are non-decreasing, lengths 0 and 1 included.
C2_SortedPermutation ==
    op = "merge_sort"
        => /\ Len(ret) = Len(arg)
           /\ { ret[i] : i \in Indices(ret) } = { arg[i] : i \in Indices(arg) }
           /\ \A i \in Indices(ret) : \A j \in Indices(ret) :
                  i < j => ret[i].timestamp <= ret[j].timestamp

C2_Witness ==
    /\ op = "merge_sort"
    /\ Len(arg) >= 3
    /\ ret # arg
    /\ \E i \in Indices(arg) : \E j \in Indices(arg) :
           i < j /\ arg[i].timestamp > arg[j].timestamp

\* C3: merge_sort is stable: of two input points with equal timestamps the
\* one that is earlier in the input is earlier in the output.
C3_Stable ==
    op = "merge_sort"
        => \A i \in Indices(ret) : \A j \in Indices(ret) :
               (i < j /\ ret[i].timestamp = ret[j].timestamp) => ret[i].id < ret[j].id

C3_Witness ==
    /\ op = "merge_sort"
    /\ ret # arg
    /\ \E i \in Indices(arg) : \E j \in Indices(arg) : \E k \in Indices(arg) :
           /\ i < j /\ j < k
           /\ arg[i].timestamp = arg[k].timestamp
           /\ arg[j].timestamp < arg[i].timestamp

\* C4: for every price list of length n >= 1 the result has
\* 0 <= start_index <= end_index <= n-1 and sum_value is the sum of
\* prices[i+1] - prices[i] for i in start_index..end_index-1; for n = 1 it
\* is the window start_index = end_index = 0 with gain 0.
C4_WindowWellFormed ==
    (op = "find_maximum_subarray" /\ Len(arg) >= 1)
        => /\ 0 <= ret.start_index
           /\ ret.start_index <= ret.end_index
           /\ ret.end_index <= Len(arg) - 1
           /\ ret.sum_value =
                  Fin(RunSum(price_changes(arg), ret.start_index, ret.end_index - 1))
           /\ Len(arg) = 1 => ret = MaximumSubarrayResult(0, 0, Fin(0))

C4_Witness ==
    /\ op = "find_maximum_subarray"
    /\ Len(arg) >= 4
    /\ ret.end_index - ret.start_index >= 3
    /\ ret.sum_value.val > 0

\* C5: in find_closest_pairs a compared pair whose reference point has price
\* 0 is skipped: no division fault is raised and no record is emitted for
\* the pair.
C5_ZeroReferenceSkipped ==
    op = "find_closest_pairs"
        => /\ exc = None
           /\ \A k \in Indices(ret) : ret[k].expected_value # 0

\* C6: for a series whose prices are all equal and non-zero the report of
\* the analysis, run with the default threshold, has an empty anomalies list.
C6_ConstantPricesNoAnomalies ==
    (/\ op = "analyze_financial_data"
     /\ Len(arg) >= 1
     /\ threshold = DefaultThreshold
     /\ \A i \in Indices(arg) : arg[i].price = arg[1].price /\ arg[i].price # 0)
        => /\ exc = None
           /\ ret.anomalies = <<>>

\* C7: for every non-empty input analyze_financial_data returns a report
\* with data_points = n, start_date and end_date the smallest and largest
\* input timestamp, and max_gain_period dates the timestamps of the sorted
\* sequence at the gain window's indices, start_date <= end_date.
C7_ReportDates ==
    (op = "analyze_financial_data" /\ Len(arg) >= 1)
        => /\ exc = None
           /\ ret.data_points = Len(arg)
           /\ \A i \in Indices(arg) :
                  ret.start_date <= arg[i].timestamp /\ arg[i].timestamp <= ret.end_date
           /\ ret.start_date = data[1].timestamp
           /\ ret.end_date = data[Len(data)].timestamp
           /\ LET window == find_maximum_subarray([k \in Indices(data) |-> data[k].price])
              IN /\ ret.max_gain_period.start_date = At(data, window.start_index).timestamp
                 /\ ret.max_gain_period.end_date = At(data, window.end_index).timestamp
           /\ ret.max_gain_period.start_date <= ret.max_gain_period.end_date

\* C8: find_closest_pairs called with 0 points or with 1 point returns an
\* empty list and raises nothing, whatever the threshold.
C8_TooFewPoints ==
    (op = "find_closest_pairs" /\ Len(arg) <= 1)
        => /\ exc = None
           /\ ret = <<>>

C8_Witness ==
    /\ op = "find_closest_pairs"
    /\ Len(arg) = 1
    /\ arg[1][2] = 0
    /\ threshold = DefaultThreshold

\* C9: every record emitted from the strip comparison carries the timestamp
\* and price of the later-in-time point of its pair, and its expected value
\* is the price of the earlier-in-time point.
C9_StripRecordsLaterPoint ==
    (op = "find_closest_pairs" /\ exc = None)
        => \A k \in Indices(ret) :
               ret[k].origin = "strip" => ret[k].ref[1] <= ret[k].timestamp

\* C10: for every price list of length n >= 2 whose prices are all equal
\* find_maximum_subarray returns start_index = 0, end_index = 1 and
\* sum_value = 0.
C10_ConstantPricesLeftmost ==
    (op = "find_maximum_subarray" /\ Len(arg) >= 2 /\ AllEqual(arg))
        => ret = MaximumSubarrayResult(0, 1, Fin(0))

C10_Witness ==
    /\ op = "find_maximum_subarray"
    /\ Len(arg) >= 4
    /\ AllEqual(arg)
    /\ arg[1] # 0

\* the normalized distance from the reference point p to q, the root of
\* days^2 + (|q.price - p.price| / p.price)^2, is strictly greater than thr
FartherThan(p, q, thr) ==
    \/ thr[1] < 0
    \/ ((q[1] - p[1]) * (q[1] - p[1]) * p[2] * p[2]
          + (q[2] - p[2]) * (q[2] - p[2])) * thr[2] * thr[2]
         > thr[1] * thr[1] * p[2] * p[2]

\* C11: every record returned by find_closest_pairs is justified by a pair
\* of input points: two distinct input positions p and q, the pair the
\* record was emitted for, with the record's timestamp and value those of
\* q, its expected value the price of p, its deviation
\* |q.price - p.price| / p.price * 100, and the normalized distance between
\* p and q strictly greater than the threshold.
C11_RecordsJustified ==
    (op = "find_closest_pairs" /\ exc = None)
        => \A k \in Indices(ret) :
               \E p \in Indices(arg) : \E q \in Indices(arg) :
                   /\ p # q
                   /\ arg[p] = ret[k].ref
                   /\ ret[k].timestamp = arg[q][1]
                   /\ ret[k].value = arg[q][2]
                   /\ ret[k].expected_value = arg[p][2]
                   /\ arg[p][2] # 0
                   /\ ret[k].deviation_percentage =
                          [num |-> Abs(arg[q][2] - arg[p][2]) * 100, den |-> arg[p][2]]
                   /\ FartherThan(arg[p], arg[q], threshold)

\* a call that emitted records from the base case and from the strip, and
\* none for a pair of points on different days that are not farther apart
\* than the threshold
C11_Witness ==
    /\ op = "find_closest_pairs"
    /\ exc = None
    /\ \E k \in Indices(ret) : ret[k].origin = "base"
    /\ \E k \in Indices(ret) : ret[k].origin = "strip"
    /\ \E p \in Indices(arg) : \E q \in Indices(arg) :
           /\ p < q
           /\ ~FartherThan(arg[p], arg[q], threshold)
           /\ ~FartherThan(arg[q], arg[p], threshold)
           /\ arg[p][1] < arg[q][1]
           /\ \A k \in Indices(ret) :
                  ~(ret[k].ref = arg[p] /\ <<ret[k].timestamp, ret[k].value>> = arg[q])

====
